---------------------------- MODULE Spec2Model ----------------------------
(***************************************************************************)
(* Fan anomaly detection firmware (main/Fan_Anomaly_Detection.cpp).        *)
(*                                                                         *)
(* Two FreeRTOS tasks pinned to different cores share the sample window    *)
(* inference_buffer and the flag audio_ready without any lock or atomic:   *)
(*   audio_capture_task  fills the window from I2S chunks and marks it     *)
(*                       ready;                                            *)
(*   inference_task      polls the flag, claims the window, classifies it, *)
(*                       renders the result and keeps the timing metrics.  *)
(* Each task is a process with a program counter; one action is one step   *)
(* of one task between two points where the other task can observe or      *)
(* change the shared state.                                                *)
(***************************************************************************)
EXTENDS Integers, Sequences, FiniteSets, TLC

(***************************************************************************)
(* Bounds of the model.                                                    *)
(***************************************************************************)
\* Window length N: EI_CLASSIFIER_RAW_SAMPLE_COUNT (416 in the source, line
\* 58), scaled down.
WindowLen == 3

\* Number of clock ticks the model lets pass.
MaxTicks == 1

\* inference_count is a uint32_t that only grows: completed cycles are capped.
MaxCycles == 2

\* Number of report periods the finer clock of the summary runs for.
MaxReports == 2

\* Number of oled_set_pixel calls the renderer's driver makes in a row.
MaxDraws == 2

\* The ghost counters of marks and stores saturate this far above the value
\* the claims compare them with.
GhostSlack == 1

(***************************************************************************)
(* Program constants.                                                      *)
(***************************************************************************)
\* The shift of line 282.
SampleShift == 14

\* The report period of line 433, in microseconds.
ReportPeriodUs == 10000000

\* Microseconds per clock tick of the model: esp_timer_get_time() returns
\* multiples of it.
TickUs == ReportPeriodUs

\* Microseconds per tick of the finer clock: half a report period, so that a
\* cycle can end short of the period, on it and past it.
HalfPeriodUs == ReportPeriodUs \div 2

N == WindowLen

\* I2S_DMA_BUF_LEN (512, line 43) is larger than the window (416): a chunk
\* may hold more samples than one window.
I2S_DMA_BUF_LEN == WindowLen + 1

ESP_OK == "ESP_OK"
ESP_FAIL == "ESP_FAIL"
EI_IMPULSE_OK == "EI_IMPULSE_OK"
EI_IMPULSE_ERROR == "EI_IMPULSE_ERROR"

(***************************************************************************)
(* Integer conversions of line 282.                                        *)
(***************************************************************************)
Pow2(k) == 2 ^ k

\* int32 >> k on the target's compiler: arithmetic shift, the floor of x / 2^k.
ShiftRight(x, k) == x \div Pow2(k)

\* (int16_t) v: the low 16 bits of v, read as a two's complement number.
ToInt16(v) == ((v + 32768) % 65536) - 32768

\* The 16-bit sample stored for the raw 32-bit sample x.
ConvertSample(x) == ToInt16(ShiftRight(x, SampleShift))

VARIABLES
    now,                      \* esp_timer_get_time(), microseconds
    \* shared between the tasks
    inference_buffer,         \* the sample window, indexed 0..N-1
    audio_ready,              \* the readiness flag
    perf_metrics,             \* performance_metrics_t
    audio_capture_start_time,
    \* audio_capture_task
    pcC,                      \* its position
    ret,                      \* esp_err_t ret of line 273, "none" out of its scope
    buffer_index,             \* fill index
    samples_read,             \* samples in the chunk read last
    i,                        \* loop index of line 280
    \* inference_task
    pcI,                      \* its position
    cycle_start_time,
    last_report_time,
    inference_start,
    rd,                       \* samples the classifier has pulled through get_data
    res,                      \* EI_IMPULSE_ERROR of the last run_classifier
    result,                   \* ei_impulse_result_t.classification
    normal_score,
    anomaly_score,
    decision,                 \* the branch of line 374 taken by the cycle, as logged at line 415
    display_start,
    oled_buffer,              \* the framebuffer
    i2c_log,                  \* the transmissions of the last oled_update, in order
    i2c_ret,                  \* which of them i2c_master_transmit reported as failed
    call,                     \* the drawing call made last by the renderer's driver
    \* history
    marks_since_claim,        \* windows marked ready since the flag was last cleared
    stores_since_mark,        \* samples stored since the window was last marked ready
    frames_flushed,           \* calls of oled_update made by inference_task
    summary_log,              \* the time inference_task started, then of each summary
    start_stamped             \* the start timestamp was taken since the last mark

captureVars == <<pcC, ret, buffer_index, samples_read, i>>
inferVars == <<pcI, cycle_start_time, last_report_time, inference_start, rd, res,
               result, normal_score, anomaly_score, decision, display_start>>
oledVars == <<oled_buffer, i2c_log, i2c_ret, call>>
sharedVars == <<inference_buffer, audio_ready, perf_metrics, audio_capture_start_time>>
ghostVars == <<marks_since_claim, stores_since_mark, frames_flushed, summary_log,
               start_stamped>>
vars == <<now, sharedVars, captureVars, inferVars, oledVars, ghostVars>>

Sat(n, cap) == IF n < cap THEN n + 1 ELSE cap

(***************************************************************************)
(* The clock.  esp_timer_get_time() is monotonic; it advances on its own.  *)
(***************************************************************************)
Tick ==
    /\ now < MaxTicks * TickUs
    /\ now' = now + TickUs
    /\ UNCHANGED <<sharedVars, captureVars, inferVars, oledVars, ghostVars>>

\* The same clock in steps of half a report period, for the summary.  The
\* summary depends on the clock through the reads of lines 311 and 432 alone;
\* every other read is stored as a duration and decides nothing.  A run in
\* which time passes elsewhere has the same summaries as the run in which that
\* time passes right before the next of these two reads, so here the time
\* passes only there.
TickHalf ==
    /\ pcI \in {"start", "report"}
    /\ now < MaxReports * ReportPeriodUs
    /\ now' = now + HalfPeriodUs
    /\ UNCHANGED <<sharedVars, captureVars, inferVars, oledVars, ghostVars>>

(***************************************************************************)
(* audio_capture_task, lines 260-298.                                      *)
(* Positions: "top" (line 269), "read" (line 273), "loop" (the test of     *)
(* line 280), "full" (line 284 with the window full), "delay" (line 293).  *)
(***************************************************************************)

\* Lines 269-271: the start timestamp is taken only when the fill index is 0.
CaptureTop ==
    /\ pcC = "top"
    /\ audio_capture_start_time' =
           IF buffer_index = 0 THEN now ELSE audio_capture_start_time
    /\ pcC' = "read"
    /\ start_stamped' = (buffer_index = 0 \/ start_stamped)
    /\ UNCHANGED <<now, inference_buffer, audio_ready, perf_metrics, ret, buffer_index,
                   samples_read, i, inferVars, oledVars,
                   marks_since_claim, stores_since_mark, frames_flushed, summary_log>>

\* Lines 273-278 with ret == ESP_OK: the driver delivered n samples.
CaptureReadOk(n) ==
    /\ pcC = "read"
    /\ ret' = "ESP_OK"
    /\ samples_read' = n
    /\ i' = 0
    /\ pcC' = "loop"
    /\ UNCHANGED <<now, sharedVars, buffer_index, inferVars, oledVars, ghostVars>>

\* CaptureReadFail starting the window over (buffer_index = 0): a variant that
\* throws the partly filled window away when a read fails.
CaptureReadFailRestart ==
    /\ pcC = "read"
    /\ ret' = "ESP_FAIL"
    /\ buffer_index' = 0
    /\ pcC' = "delay"
    /\ UNCHANGED <<now, sharedVars, samples_read, i, inferVars, oledVars, ghostVars>>

\* Lines 273-277 with ret != ESP_OK: the loop is skipped.
CaptureReadFail ==
    /\ pcC = "read"
    /\ ret' = "ESP_FAIL"
    /\ pcC' = "delay"
    /\ UNCHANGED <<now, sharedVars, buffer_index, samples_read, i, inferVars, oledVars, ghostVars>>

\* The test of the for loop, line 280.
LoopCond == i < samples_read /\ buffer_index < N

\* CaptureStore with the test of line 284 off by one (buffer_index >= N - 1):
\* a variant the properties of the capture task must tell from the code.
CaptureStoreEarlyFull(raw) ==
    /\ pcC = "loop"
    /\ LoopCond
    /\ inference_buffer' = [inference_buffer EXCEPT ![buffer_index] = ConvertSample(raw)]
    /\ buffer_index' = buffer_index + 1
    /\ i' = i + 1
    /\ pcC' = IF buffer_index + 1 >= N - 1 THEN "full" ELSE "loop"
    /\ stores_since_mark' = Sat(stores_since_mark, N + GhostSlack)
    /\ UNCHANGED <<now, audio_ready, perf_metrics, audio_capture_start_time, ret,
                   samples_read, inferVars, oledVars, marks_since_claim, frames_flushed,
                   summary_log, start_stamped>>

\* Line 282 and the i++ of line 280: i2s_buffer[i], here raw, is converted and
\* stored at the fill index.  The chunk's samples are inputs read once each, so
\* each is drawn when it is read.
CaptureStore(raw) ==
    /\ pcC = "loop"
    /\ LoopCond
    /\ inference_buffer' = [inference_buffer EXCEPT ![buffer_index] = ConvertSample(raw)]
    /\ buffer_index' = buffer_index + 1
    /\ i' = i + 1
    /\ pcC' = IF buffer_index + 1 >= N THEN "full" ELSE "loop"
    /\ stores_since_mark' = Sat(stores_since_mark, N + GhostSlack)
    /\ UNCHANGED <<now, audio_ready, perf_metrics, audio_capture_start_time, ret,
                   samples_read, inferVars, oledVars, marks_since_claim, frames_flushed,
                   summary_log, start_stamped>>

\* CaptureMark without the buffer_index = 0 of line 288: a variant that leaves
\* the fill index at the end of the window.
CaptureMarkNoReset ==
    /\ pcC = "full"
    /\ perf_metrics' = [perf_metrics EXCEPT
                           !.audio_capture_us = now - audio_capture_start_time]
    /\ audio_ready' = TRUE
    /\ pcC' = "loop"
    /\ marks_since_claim' = Sat(marks_since_claim, 1 + GhostSlack)
    /\ stores_since_mark' = 0
    /\ start_stamped' = FALSE
    /\ UNCHANGED <<now, inference_buffer, audio_capture_start_time, ret, buffer_index,
                   samples_read, i, inferVars, oledVars, frames_flushed, summary_log>>

\* Lines 284-289: the window is full.
CaptureMark ==
    /\ pcC = "full"
    /\ perf_metrics' = [perf_metrics EXCEPT
                           !.audio_capture_us = now - audio_capture_start_time]
    /\ audio_ready' = TRUE
    /\ buffer_index' = 0
    /\ pcC' = "loop"
    /\ marks_since_claim' = Sat(marks_since_claim, 1 + GhostSlack)
    /\ stores_since_mark' = 0
    /\ start_stamped' = FALSE
    /\ UNCHANGED <<now, inference_buffer, audio_capture_start_time, ret, samples_read, i,
                   inferVars, oledVars, frames_flushed, summary_log>>

\* The loop ends: the chunk is used up; samples_read and i go out of scope.
CaptureLoopExit ==
    /\ pcC = "loop"
    /\ ~LoopCond
    /\ samples_read' = 0
    /\ i' = 0
    /\ pcC' = "delay"
    /\ UNCHANGED <<now, sharedVars, ret, buffer_index, inferVars, oledVars, ghostVars>>

\* Line 293: vTaskDelay(1), then the next iteration; ret goes out of scope.
CaptureDelay ==
    /\ pcC = "delay"
    /\ ret' = "none"
    /\ pcC' = "top"
    /\ UNCHANGED <<now, sharedVars, buffer_index, samples_read, i, inferVars, oledVars, ghostVars>>

(***************************************************************************)
(* Labels and scores.  A label is a C string, here the sequence of its     *)
(* characters; a score is a float in [0,1], here in hundredths.            *)
(***************************************************************************)
Str_normal == <<"n", "o", "r", "m", "a", "l">>
Str_Normal == <<"N", "o", "r", "m", "a", "l">>
Str_abnormal == <<"a", "b", "n", "o", "r", "m", "a", "l">>
Str_Abnormal == <<"A", "b", "n", "o", "r", "m", "a", "l">>

\* Letter case: the lower-case form of a character and of a string.
UpperLetters == <<"A", "B", "C", "D", "E", "F", "G", "H", "I", "J", "K", "L", "M",
                  "N", "O", "P", "Q", "R", "S", "T", "U", "V", "W", "X", "Y", "Z">>
LowerLetters == <<"a", "b", "c", "d", "e", "f", "g", "h", "i", "j", "k", "l", "m",
                  "n", "o", "p", "q", "r", "s", "t", "u", "v", "w", "x", "y", "z">>

ToLower(c) ==
    IF \E k \in 1..26 : UpperLetters[k] = c
        THEN LowerLetters[CHOOSE k \in 1..26 : UpperLetters[k] = c]
        ELSE c

LowerStr(str) == [k \in 1..Len(str) |-> ToLower(str[k])]

\* strcasecmp(a, b) == 0: a variant of the comparison that ignores letter case.
StrCaseEq(a, b) == LowerStr(a) = LowerStr(b)

\* strcmp(a, b) == 0
StrEq(a, b) == a = b

\* Lines 346-358: the loop over result.classification[0 .. LABEL_COUNT-1],
\* from entry ix on, with the scores found so far.
RECURSIVE ExtractFrom(_, _, _, _)
ExtractFrom(cls, ix, ns, as) ==
    IF ix > Len(cls) THEN [normal |-> ns, anomaly |-> as]
    ELSE LET label == cls[ix].label
             value == cls[ix].value
         IN  IF StrEq(label, Str_normal) \/ StrEq(label, Str_Normal)
                 THEN ExtractFrom(cls, ix + 1, value, as)
             ELSE IF StrEq(label, Str_abnormal) \/ StrEq(label, Str_Abnormal)
                 THEN ExtractFrom(cls, ix + 1, ns, value)
             ELSE ExtractFrom(cls, ix + 1, ns, as)

\* normal_score and anomaly_score after the loop; both start at 0.0f.
ExtractScores(cls) == ExtractFrom(cls, 1, 0, 0)

\* Decide with >= for >: a variant in which a tie is an anomaly.
DecideTieAnomaly(ns, as) == IF as >= ns THEN "ANOMALY" ELSE "NORMAL"

\* Lines 374 and 415: the decision of the cycle, (anomaly_score > normal_score),
\* which chooses the screen at line 374 and the logged word at line 415.
Decide(ns, as) == IF as > ns THEN "ANOMALY" ELSE "NORMAL"

(***************************************************************************)
(* The framebuffer renderer, lines 84-193.                                 *)
(* A character is a string of length 1, a C string the sequence of its     *)
(* characters; oled_buffer is a function from 0 .. OLED_BUFFER_SIZE-1 to   *)
(* bytes.  A drawing function takes the buffer and returns the buffer it   *)
(* leaves.                                                                 *)
(***************************************************************************)
OLED_WIDTH == 128
OLED_HEIGHT == 64
OLED_BUFFER_SIZE == (OLED_WIDTH * OLED_HEIGHT) \div 8

\* The printable ASCII characters, codes 32 to 126 in order (code 96, the grave
\* accent, by its name).
AsciiPrintable == <<
    " ", "!", "\"", "#", "$", "%", "&", "'", "(", ")", "*", "+", ",", "-", ".", "/",
    "0", "1", "2", "3", "4", "5", "6", "7", "8", "9", ":", ";", "<", "=", ">", "?",
    "@", "A", "B", "C", "D", "E", "F", "G", "H", "I", "J", "K", "L", "M", "N", "O",
    "P", "Q", "R", "S", "T", "U", "V", "W", "X", "Y", "Z", "[", "\\", "]", "^", "_",
    "grave", "a", "b", "c", "d", "e", "f", "g", "h", "i", "j", "k", "l", "m", "n", "o",
    "p", "q", "r", "s", "t", "u", "v", "w", "x", "y", "z", "{", "|", "}", "~" >>

\* The character code of c.
Ord(c) == 31 + CHOOSE k \in 1..Len(AsciiPrintable) : AsciiPrintable[k] = c

\* Lines 84-124, the glyph columns; glyph index g is font5x7[g + 1].
font5x7 == <<
    <<126,  17,  17,  17, 126>>,  \* A
    <<127,  73,  73,  73,  54>>,  \* B
    << 62,  65,  65,  65,  34>>,  \* C
    <<127,  65,  65,  34,  28>>,  \* D
    <<127,  73,  73,  73,  65>>,  \* E
    <<127,   9,   9,   9,   1>>,  \* F
    << 62,  65,  73,  73, 122>>,  \* G
    <<127,   8,   8,   8, 127>>,  \* H
    <<  0,  65, 127,  65,   0>>,  \* I
    << 32,  64,  65,  63,   1>>,  \* J
    <<127,   8,  20,  34,  65>>,  \* K
    <<127,  64,  64,  64,  64>>,  \* L
    <<127,   2,  12,   2, 127>>,  \* M
    <<127,   4,   8,  16, 127>>,  \* N
    << 62,  65,  65,  65,  62>>,  \* O
    <<127,   9,   9,   9,   6>>,  \* P
    << 62,  65,  81,  33,  94>>,  \* Q
    <<127,   9,  25,  41,  70>>,  \* R
    << 70,  73,  73,  73,  49>>,  \* S
    <<  1,   1, 127,   1,   1>>,  \* T
    << 63,  64,  64,  64,  63>>,  \* U
    << 31,  32,  64,  32,  31>>,  \* V
    << 63,  64,  56,  64,  63>>,  \* W
    << 99,  20,   8,  20,  99>>,  \* X
    <<  7,   8, 112,   8,   7>>,  \* Y
    << 97,  81,  73,  69,  67>>,  \* Z
    <<  0,   0,   0,   0,   0>>,  \* Space
    <<  0,   0,  95,   0,   0>>,  \* !
    << 62,  81,  73,  69,  62>>,  \* 0
    <<  0,  66, 127,  64,   0>>,  \* 1
    << 66,  97,  81,  73,  70>>,  \* 2
    << 33,  65,  69,  75,  49>>,  \* 3
    << 24,  20,  18, 127,  16>>,  \* 4
    << 39,  69,  69,  69,  57>>,  \* 5
    << 60,  74,  73,  73,  48>>,  \* 6
    <<  1, 113,   9,   5,   3>>,  \* 7
    << 54,  73,  73,  73,  54>>,  \* 8
    <<  6,  73,  73,  41,  30>>,  \* 9
    <<  0,  54,  54,   0,   0>>   \* :
    >>

\* Bit k of byte b.
Bit(b, k) == (b \div Pow2(k)) % 2

\* Lines 144-148: b |= (1 << k) when on, b &= ~(1 << k) otherwise.
PixelByte(b, k, on) ==
    IF on THEN (IF Bit(b, k) = 1 THEN b ELSE b + Pow2(k))
          ELSE (IF Bit(b, k) = 1 THEN b - Pow2(k) ELSE b)

\* InBounds with > for >=: a variant that lets the column and the row just
\* past the screen through.
InBoundsInclusive(x, y) == ~(x < 0 \/ x > OLED_WIDTH \/ y < 0 \/ y > OLED_HEIGHT)

InBounds(x, y) == ~(x < 0 \/ x >= OLED_WIDTH \/ y < 0 \/ y >= OLED_HEIGHT)

\* Lines 132-134.
oled_clear_buffer == [k \in 0..(OLED_BUFFER_SIZE - 1) |-> 0]

\* Lines 136-138.
oled_fill_buffer == [k \in 0..(OLED_BUFFER_SIZE - 1) |-> 255]

\* Lines 140-149.
oled_set_pixel(buf, x, y, on) ==
    IF ~InBounds(x, y) THEN buf
    ELSE LET byte_index == x + (y \div 8) * OLED_WIDTH
             bit_index == y % 8
         IN  [buf EXCEPT ![byte_index] = PixelByte(@, bit_index, on)]

\* oled_set_pixel(x, y, on) called once for every <<x, y>> of the set P, in any
\* order: the calls touch different bits, or the same bit with the same on.
\* Byte k holds the pixels <<k % OLED_WIDTH, 8 * (k \div OLED_WIDTH) + bit>>.
SetPixels(buf, P, on) ==
    LET touched == {p[1] + (p[2] \div 8) * OLED_WIDTH : p \in {q \in P : InBounds(q[1], q[2])}}
        Px(k, bit, b) == IF <<k % OLED_WIDTH, 8 * (k \div OLED_WIDTH) + bit>> \in P
                            THEN PixelByte(b, bit, on) ELSE b
    IN  [k \in DOMAIN buf |->
            IF k \in touched
               THEN Px(k, 7, Px(k, 6, Px(k, 5, Px(k, 4,
                    Px(k, 3, Px(k, 2, Px(k, 1, Px(k, 0, buf[k]))))))))
               ELSE buf[k]]

\* Lines 152-158: the glyph index of c, -1 when c has no glyph.
GlyphIndex(c) ==
    LET o == Ord(c)
    IN  IF o >= Ord("A") /\ o <= Ord("Z") THEN o - Ord("A")
        ELSE IF o >= Ord("a") /\ o <= Ord("z") THEN o - Ord("a")
        ELSE IF c = " " THEN 26
        ELSE IF c = "!" THEN 27
        ELSE IF o >= Ord("0") /\ o <= Ord("9") THEN 28 + (o - Ord("0"))
        ELSE IF c = ":" THEN 38
        ELSE -1

\* CharPixels with the loop indices exchanged, (x + j, y + i): a variant that
\* draws the glyph transposed.
CharPixelsTransposed(x, y, c) ==
    LET index == GlyphIndex(c)
    IN  IF index < 0 THEN {}
        ELSE {<<x + j, y + ci>> : <<ci, j>> \in
                 {t \in (0..4) \X (0..6) : Bit(font5x7[index + 1][t[1] + 1], t[2]) = 1}}

\* Lines 160-169: the pixels oled_draw_char(x, y, c, on) passes to
\* oled_set_pixel.
CharPixels(x, y, c) ==
    LET index == GlyphIndex(c)
    IN  IF index < 0 THEN {}
        ELSE {<<x + ci, y + j>> : <<ci, j>> \in
                 {t \in (0..4) \X (0..6) : Bit(font5x7[index + 1][t[1] + 1], t[2]) = 1}}

\* Lines 151-170.
oled_draw_char(buf, x, y, c, on) == SetPixels(buf, CharPixels(x, y, c), on)

\* StringPixels with x += 5, the width of a glyph without the spacing column.
StringPixelsNoSpacing(x, y, str) ==
    UNION {CharPixels(x + 5 * (k - 1), y, str[k]) : k \in 1..Len(str)}

\* Lines 172-178: character k (from 1) is drawn at x + 6 * (k - 1).
StringPixels(x, y, str) ==
    UNION {CharPixels(x + 6 * (k - 1), y, str[k]) : k \in 1..Len(str)}

oled_draw_string(buf, x, y, str, on) == SetPixels(buf, StringPixels(x, y, str), on)

\* Lines 127-130: the bytes oled_write_command(cmd) transmits.
oled_write_command(cmd) == <<0, cmd>>

\* Lines 186-191: the data transmission of a page.
PageData(buf, page) ==
    <<64>> \o [k \in 1..OLED_WIDTH |-> buf[OLED_WIDTH * page + (k - 1)]]

\* PageTx with the data sent before the page is addressed.
PageTxDataFirst(buf, page) ==
    << PageData(buf, page), oled_write_command(176 + page), oled_write_command(0),
       oled_write_command(16) >>

\* Lines 182-191: the four transmissions of a page.
PageTx(buf, page) ==
    << oled_write_command(176 + page), oled_write_command(0),
       oled_write_command(16), PageData(buf, page) >>

\* Lines 180-193: the transmissions of oled_update, in order.
oled_update(buf) ==
    PageTx(buf, 0) \o PageTx(buf, 1) \o PageTx(buf, 2) \o PageTx(buf, 3) \o
    PageTx(buf, 4) \o PageTx(buf, 5) \o PageTx(buf, 6) \o PageTx(buf, 7)

(***************************************************************************)
(* Text of the result screen.                                              *)
(***************************************************************************)
DigitChars == <<"0", "1", "2", "3", "4", "5", "6", "7", "8", "9">>

\* printf of a non-negative integer in decimal.
RECURSIVE Decimal(_)
Decimal(n) == IF n < 10 THEN <<DigitChars[n + 1]>>
              ELSE Append(Decimal(n \div 10), DigitChars[(n % 10) + 1])

\* Line 392: "N:%.0f A:%.0f" of the scores times 100; the scores are kept in
\* hundredths, so the product is the integer itself.
ScoreText(ns, as) == <<"N", ":">> \o Decimal(ns) \o <<" ", "A", ":">> \o Decimal(as)

\* Line 397: "%lldms" of inference_us / 1000.
TimingText(us) == Decimal(us \div 1000) \o <<"m", "s">>

Str_FAN_STATUS == <<"F", "A", "N", " ", "S", "T", "A", "T", "U", "S">>
Str_ANOMALY == <<"A", "N", "O", "M", "A", "L", "Y", "!">>
Str_NORMAL == <<"N", "O", "R", "M", "A", "L">>
Str_FAN_ANOMALY == <<"F", "A", "N", " ", "A", "N", "O", "M", "A", "L", "Y">>
Str_DETECTION == <<"D", "E", "T", "E", "C", "T", "I", "O", "N">>
Str_LOADING == <<"L", "O", "A", "D", "I", "N", "G">>

\* Lines 369-371: the separator line.
SeparatorPixels == {<<x, 16>> : x \in 0..(OLED_WIDTH - 1)}

\* Lines 378-385: the warning box.
BoxPixels ==
    {<<x, y>> : x \in 10..(OLED_WIDTH - 11), y \in {22, 38}} \cup
    {<<x, y>> : x \in {10, OLED_WIDTH - 11}, y \in 22..37}

\* Lines 363-398: the frame drawn for the scores ns, as and the duration us.
RenderFrame(ns, as, us) ==
    LET b0 == oled_clear_buffer
        b1 == oled_draw_string(b0, 10, 5, Str_FAN_STATUS, TRUE)
        b2 == SetPixels(b1, SeparatorPixels, TRUE)
        b3 == IF Decide(ns, as) = "ANOMALY"
                 THEN SetPixels(oled_draw_string(b2, 15, 25, Str_ANOMALY, TRUE),
                                BoxPixels, TRUE)
                 ELSE oled_draw_string(b2, 20, 25, Str_NORMAL, TRUE)
        b4 == oled_draw_string(b3, 20, 45, ScoreText(ns, as), TRUE)
    IN  oled_draw_string(b4, 5, 55, TimingText(us), TRUE)

\* Lines 485-488: the startup screen drawn by app_main.
StartupFrame ==
    oled_draw_string(
        oled_draw_string(
            oled_draw_string(oled_clear_buffer, 5, 10, Str_FAN_ANOMALY, TRUE),
            10, 25, Str_DETECTION, TRUE),
        15, 40, Str_LOADING, TRUE)


(***************************************************************************)
(* inference_task, lines 301-451.                                          *)
(* Positions: "start" (line 311), "poll" (line 314), "idle" (line 315),    *)
(* "claim" (line 331), "classify" (inside run_classifier, line 335),       *)
(* "render" (line 361), "flush" (line 400), "metrics" (line 402), "report" *)
(* (line 432), "pace" (line 447).  The locals declared in the loop body    *)
(* (inference_start, normal_score, anomaly_score, display_start) return to *)
(* 0 after their last use.                                                 *)
(***************************************************************************)

\* The scores a classification can carry, in hundredths.
ScoreValues == {0, 30, 50, 70}

\* The values esp_timer_get_time() returns within the model's horizon.
ClockValues ==
    {k * TickUs : k \in 0..MaxTicks} \cup {k * HalfPeriodUs : k \in 0..(2 * MaxReports)}

\* RenderFrame, tabulated over the scores and durations of the model.
FrameTable ==
    [ns \in ScoreValues, as \in ScoreValues, us \in ClockValues |-> RenderFrame(ns, as, us)]

\* Line 311: the task starts.
InferStart ==
    /\ pcI = "start"
    /\ last_report_time' = now
    /\ summary_log' = <<now>>
    /\ pcI' = "poll"
    /\ UNCHANGED <<now, sharedVars, captureVars, cycle_start_time, inference_start, rd,
                   res, result, normal_score, anomaly_score, decision, display_start,
                   oledVars, marks_since_claim, stores_since_mark, frames_flushed,
                   start_stamped>>

\* InferPoll without the wait of lines 314-317: a variant in which a cycle
\* starts whatever the flag says.
InferPollNoWait ==
    /\ pcI = "poll"
    /\ perf_metrics.inference_count < MaxCycles
    /\ cycle_start_time' = now
    /\ pcI' = "claim"
    /\ UNCHANGED <<now, sharedVars, captureVars, last_report_time, inference_start, rd,
                   res, result, normal_score, anomaly_score, decision, display_start,
                   oledVars, ghostVars>>

\* Lines 314-320: the flag is polled; when it is set the cycle starts.
InferPoll ==
    /\ pcI = "poll"
    /\ IF ~audio_ready
          THEN /\ pcI' = "idle"
               /\ UNCHANGED cycle_start_time
          ELSE /\ perf_metrics.inference_count < MaxCycles
               /\ cycle_start_time' = now
               /\ pcI' = "claim"
    /\ UNCHANGED <<now, sharedVars, captureVars, last_report_time, inference_start, rd,
                   res, result, normal_score, anomaly_score, decision, display_start,
                   oledVars, ghostVars>>

\* Lines 315-316: vTaskDelay(10 ms), then the flag is polled again.
InferIdleDelay ==
    /\ pcI = "idle"
    /\ pcI' = "poll"
    /\ UNCHANGED <<now, sharedVars, captureVars, cycle_start_time, last_report_time,
                   inference_start, rd, res, result, normal_score, anomaly_score,
                   decision, display_start, oledVars, ghostVars>>

\* InferClaim without the audio_ready = false of line 331: a variant that
\* classifies the window and leaves the flag set.
InferClaimKeepsFlag ==
    /\ pcI = "claim"
    /\ inference_start' = now
    /\ rd' = 0
    /\ pcI' = "classify"
    /\ marks_since_claim' = 0
    /\ UNCHANGED <<now, sharedVars, captureVars, cycle_start_time, last_report_time,
                   res, result, normal_score, anomaly_score, decision, display_start,
                   oledVars, stores_since_mark, frames_flushed,
                   summary_log, start_stamped>>

\* Lines 331-335: the flag is cleared and run_classifier is entered.
InferClaim ==
    /\ pcI = "claim"
    /\ audio_ready' = FALSE
    /\ inference_start' = now
    /\ rd' = 0
    /\ pcI' = "classify"
    /\ marks_since_claim' = 0
    /\ UNCHANGED <<now, inference_buffer, perf_metrics, audio_capture_start_time,
                   captureVars, cycle_start_time, last_report_time, res, result,
                   normal_score, anomaly_score, decision, display_start,
                   oledVars, stores_since_mark, frames_flushed,
                   summary_log, start_stamped>>

\* Lines 324-329: the classifier pulls the next sample of the window through
\* signal.get_data, which reads inference_buffer[rd].
SignalGetData ==
    /\ pcI = "classify"
    /\ rd < N
    /\ rd' = rd + 1
    /\ UNCHANGED <<now, sharedVars, captureVars, pcI, cycle_start_time, last_report_time,
                   inference_start, res, result, normal_score, anomaly_score, decision,
                   display_start, oledVars, ghostVars>>

\* InferClassifyEnd without the continue of line 342: a variant in which a
\* failed classification falls through to the rendering.
InferClassifyEndNoContinue(r) ==
    /\ pcI = "classify"
    /\ r.status = EI_IMPULSE_OK => rd = N
    /\ res' = r.status
    /\ perf_metrics' = [perf_metrics EXCEPT !.inference_us = now - inference_start]
    /\ inference_start' = 0
    /\ rd' = 0
    /\ IF r.status # EI_IMPULSE_OK
          THEN UNCHANGED <<result, normal_score, anomaly_score>>
          ELSE /\ result' = r.classification
               /\ normal_score' = ExtractScores(r.classification).normal
               /\ anomaly_score' = ExtractScores(r.classification).anomaly
    /\ pcI' = "render"
    /\ UNCHANGED <<now, inference_buffer, audio_ready, audio_capture_start_time,
                   captureVars, cycle_start_time, last_report_time,
                   decision, display_start, oledVars, ghostVars>>

\* Lines 335-358: run_classifier returns status r.status and, on success, the
\* classification r.classification; the duration is stored before the status
\* is looked at; a failure abandons the cycle, a success extracts the scores.
\* A successful classification has read the whole window.  res keeps the
\* status of the last call, which line 341 logs.
InferClassifyEnd(r) ==
    /\ pcI = "classify"
    /\ r.status = EI_IMPULSE_OK => rd = N
    /\ res' = r.status
    /\ perf_metrics' = [perf_metrics EXCEPT !.inference_us = now - inference_start]
    /\ inference_start' = 0
    /\ rd' = 0
    /\ IF r.status # EI_IMPULSE_OK
          THEN /\ pcI' = "poll"
               /\ UNCHANGED <<result, normal_score, anomaly_score>>
          ELSE /\ result' = r.classification
               /\ normal_score' = ExtractScores(r.classification).normal
               /\ anomaly_score' = ExtractScores(r.classification).anomaly
               /\ pcI' = "render"
    /\ UNCHANGED <<now, inference_buffer, audio_ready, audio_capture_start_time,
                   captureVars, cycle_start_time, last_report_time,
                   decision, display_start, oledVars, ghostVars>>

\* InferRender without the oled_clear_buffer() of line 363: a variant that
\* draws the frame over what the framebuffer holds.
InferRenderNoClear ==
    /\ pcI = "render"
    /\ display_start' = now
    /\ decision' = Decide(normal_score, anomaly_score)
    /\ oled_buffer' =
           LET b1 == oled_draw_string(oled_buffer, 10, 5, Str_FAN_STATUS, TRUE)
               b2 == SetPixels(b1, SeparatorPixels, TRUE)
               b3 == IF anomaly_score > normal_score
                        THEN SetPixels(oled_draw_string(b2, 15, 25, Str_ANOMALY, TRUE),
                                       BoxPixels, TRUE)
                        ELSE oled_draw_string(b2, 20, 25, Str_NORMAL, TRUE)
               b4 == oled_draw_string(b3, 20, 45,
                                      ScoreText(normal_score, anomaly_score), TRUE)
           IN  oled_draw_string(b4, 5, 55, TimingText(perf_metrics.inference_us), TRUE)
    /\ pcI' = "flush"
    /\ UNCHANGED <<now, sharedVars, captureVars, cycle_start_time, last_report_time,
                   inference_start, rd, res, result, normal_score, anomaly_score,
                   i2c_log, i2c_ret, call, ghostVars>>

\* Lines 361-398: the frame is cleared and drawn.
InferRender ==
    /\ pcI = "render"
    /\ display_start' = now
    /\ decision' = Decide(normal_score, anomaly_score)
    /\ oled_buffer' = FrameTable[normal_score, anomaly_score, perf_metrics.inference_us]
    /\ pcI' = "flush"
    /\ UNCHANGED <<now, sharedVars, captureVars, cycle_start_time, last_report_time,
                   inference_start, rd, res, result, normal_score, anomaly_score,
                   i2c_log, i2c_ret, call, ghostVars>>

\* Line 400: oled_update().  The transmissions numbered in failed are those
\* for which i2c_master_transmit returns an error; oled_update is a void
\* function that drops every return value (lines 182-184, 191), so the caller
\* goes on to line 402 whatever failed.
InferFlush(failed) ==
    /\ pcI = "flush"
    /\ i2c_log' = oled_update(oled_buffer)
    /\ i2c_ret' = failed
    /\ frames_flushed' = frames_flushed + 1
    /\ pcI' = "metrics"
    /\ UNCHANGED <<now, sharedVars, captureVars, cycle_start_time, last_report_time,
                   inference_start, rd, res, result, normal_score, anomaly_score,
                   decision, display_start, oled_buffer, call, marks_since_claim,
                   stores_since_mark, summary_log, start_stamped>>

\* Lines 402-429: the metrics of the cycle.  fps is 1000000.0f / total_cycle_us,
\* kept as the pair <<numerator, denominator>>.
InferMetrics ==
    /\ pcI = "metrics"
    /\ perf_metrics' = [perf_metrics EXCEPT
           !.display_update_us = now - display_start,
           !.total_cycle_us = now - cycle_start_time,
           !.inference_count = @ + 1,
           !.fps = <<1000000, now - cycle_start_time>>]
    /\ display_start' = 0
    /\ pcI' = "report"
    /\ UNCHANGED <<now, inference_buffer, audio_ready, audio_capture_start_time,
                   captureVars, cycle_start_time, last_report_time, inference_start, rd,
                   res, result, normal_score, anomaly_score, decision,
                   oledVars, ghostVars>>

\* InferReport with the period of line 433 short of a digit (1000000): a
\* variant in which the summary comes after one second.
InferReportShortPeriod ==
    /\ pcI = "report"
    /\ IF (now - last_report_time) >= 1000000
          THEN /\ last_report_time' = now
               /\ summary_log' = Append(summary_log, now)
          ELSE UNCHANGED <<last_report_time, summary_log>>
    /\ pcI' = "pace"
    /\ UNCHANGED <<now, sharedVars, captureVars, cycle_start_time, inference_start, rd,
                   res, result, normal_score, anomaly_score, decision, display_start,
                   oledVars, marks_since_claim, stores_since_mark, frames_flushed,
                   start_stamped>>

\* InferReport with the counter started anew by each summary: a variant in
\* which the report window resets the cumulative count.
InferReportResetsCount ==
    /\ pcI = "report"
    /\ IF (now - last_report_time) >= ReportPeriodUs
          THEN /\ last_report_time' = now
               /\ summary_log' = Append(summary_log, now)
               /\ perf_metrics' = [perf_metrics EXCEPT !.inference_count = 0]
          ELSE UNCHANGED <<last_report_time, summary_log, perf_metrics>>
    /\ pcI' = "pace"
    /\ UNCHANGED <<now, inference_buffer, audio_ready, audio_capture_start_time,
                   captureVars, cycle_start_time, inference_start, rd,
                   res, result, normal_score, anomaly_score, decision, display_start,
                   oledVars, marks_since_claim, stores_since_mark, frames_flushed,
                   start_stamped>>

\* Lines 432-445: the summary, every 10 seconds.
InferReport ==
    /\ pcI = "report"
    /\ IF (now - last_report_time) >= ReportPeriodUs
          THEN /\ last_report_time' = now
               /\ summary_log' = Append(summary_log, now)
          ELSE UNCHANGED <<last_report_time, summary_log>>
    /\ pcI' = "pace"
    /\ UNCHANGED <<now, sharedVars, captureVars, cycle_start_time, inference_start, rd,
                   res, result, normal_score, anomaly_score, decision, display_start,
                   oledVars, marks_since_claim, stores_since_mark, frames_flushed,
                   start_stamped>>

\* InferPace with the flag cleared at the end of the cycle as well: a variant
\* in which a step other than the claim writes audio_ready.
InferPaceClearsFlag ==
    /\ pcI = "pace"
    /\ audio_ready' = FALSE
    /\ normal_score' = 0
    /\ anomaly_score' = 0
    /\ decision' = "NONE"
    /\ pcI' = "poll"
    /\ UNCHANGED <<now, inference_buffer, perf_metrics, audio_capture_start_time,
                   captureVars, cycle_start_time, last_report_time,
                   inference_start, rd, res, result, display_start, oledVars, ghostVars>>

\* Line 447: vTaskDelay(100 ms), then the next iteration.
InferPace ==
    /\ pcI = "pace"
    /\ normal_score' = 0
    /\ anomaly_score' = 0
    /\ decision' = "NONE"
    /\ pcI' = "poll"
    /\ UNCHANGED <<now, sharedVars, captureVars, cycle_start_time, last_report_time,
                   inference_start, rd, res, result, display_start, oledVars, ghostVars>>

(***************************************************************************)
(* Inputs.                                                                 *)
(***************************************************************************)
\* Sizes of a chunk: bytes_read / sizeof(int32_t), at most the buffer's length.
ChunkSizes == 0..I2S_DMA_BUF_LEN

\* The full chunk, and a chunk of exactly one window.
FullChunk == {I2S_DMA_BUF_LEN}
WindowChunk == {N}

\* A raw 32-bit sample of a quiet signal.
QuietSamples == {Pow2(14)}

\* Raw 32-bit samples: zero, the least and the greatest of int32, the values
\* around the steps of the shift (2^14) and around the range of the 16-bit
\* result (|x >> 14| = 2^15, that is |x| = 2^29), of both signs.
RawSamples ==
    { 0, 1, -1, Pow2(14) - 1, Pow2(14), -Pow2(14), -Pow2(14) - 1,
      Pow2(29) - 1, Pow2(29), -Pow2(29), -Pow2(29) - 1,
      (Pow2(30) - 1) + Pow2(30), -Pow2(30) - Pow2(30) }

Entry(l, v) == [label |-> l, value |-> v]

Failure == [status |-> EI_IMPULSE_ERROR, classification |-> <<>>]

Success(cls) == [status |-> EI_IMPULSE_OK, classification |-> cls]

\* The transmissions of one oled_update are numbered 1..32 in the order they
\* are made.  Fault patterns of the I2C bus: none fails.
NoFaults == {{}}

\* Fault patterns: none fails; the first page-address command fails; the data
\* of one page fails; every transmission fails.
TransmitFaults == {{}, {1}, {12}, 1..32}

\* What run_classifier returns: a failure, a normal fan, an abnormal fan.
ClassifierResults ==
    { Failure,
      Success(<<Entry(Str_abnormal, 30), Entry(Str_normal, 70)>>),
      Success(<<Entry(Str_abnormal, 70), Entry(Str_normal, 30)>>) }

\* The same without the abnormal fan.
ReportResults ==
    { Failure,
      Success(<<Entry(Str_abnormal, 30), Entry(Str_normal, 70)>>) }

\* Spellings of the labels, and a label of another class.
Str_NORMAL_upper == <<"N", "O", "R", "M", "A", "L">>
Str_aBnormal == <<"a", "B", "n", "o", "r", "m", "a", "l">>
Str_ABNORMAL_upper == <<"A", "B", "N", "O", "R", "M", "A", "L">>
Str_idle == <<"i", "d", "l", "e">>

NormalSpellings == {Str_normal, Str_Normal, Str_NORMAL_upper, Str_idle}
AbnormalSpellings == {Str_abnormal, Str_Abnormal, Str_aBnormal, Str_ABNORMAL_upper}

\* Classifications of two labels: the labels as the code spells them with
\* scores below, above and equal to each other, in either order; every pair of
\* spellings with two different scores; and a failure.
LabelledResults ==
    { Success(<<Entry(Str_normal, v[1]), Entry(Str_abnormal, v[2])>>) :
          v \in {<<30, 70>>, <<70, 30>>, <<50, 50>>} }
    \cup { Success(<<Entry(Str_abnormal, 70), Entry(Str_normal, 30)>>) }
    \cup { Success(<<Entry(la, 30), Entry(lb, 70)>>) :
               la \in NormalSpellings, lb \in AbnormalSpellings }
    \cup { Failure }

(***************************************************************************)
(* The renderer called on its own.  The drawing functions are pure         *)
(* functions of the framebuffer and of their arguments; a driver calls     *)
(* them with arguments of every kind on a framebuffer that is cleared,     *)
(* filled, the startup screen, or left by the calls before, and records    *)
(* the call in the variable call.  It starts from the startup screen,      *)
(* clears or fills the framebuffer or leaves it, draws, and flushes.       *)
(***************************************************************************)
\* Coordinates of oled_set_pixel: the first and the last column, a row that
\* is not the first bit of its byte and the last row, and the points just off
\* each edge.
PixelXs == {-1, 0, 127, 128}
PixelYs == {-1, 9, 63, 64}

\* Characters: every character with a glyph, and some without.
SupportedChars ==
    {AsciiPrintable[k] : k \in (Ord("A") - 31)..(Ord("Z") - 31)} \cup
    {AsciiPrintable[k] : k \in (Ord("a") - 31)..(Ord("z") - 31)} \cup
    {AsciiPrintable[k] : k \in (Ord("0") - 31)..(Ord("9") - 31)} \cup
    {" ", "!", ":"}
UnsupportedChars == {"#", "@", "[", "grave", "~", "/", ";"}

\* Origins of a glyph: a corner, inside across a page boundary, cut by the
\* right, the bottom and the top left edge, and off the screen.
CharOrigins == {<<0, 0>>, <<62, 29>>, <<125, 3>>, <<60, 60>>, <<-3, -4>>, <<128, 10>>}

\* Texts: two glyphs, an unsupported character between two glyphs, the empty
\* text, lower case with digits and punctuation, a title of the program, and
\* a text wider than the screen.
Str_AB == <<"A", "B">>
Str_A_hash_B == <<"A", "#", "B">>
Str_mixed == <<"a", ":", "1", "!", "z", "9">>
Str_wide == Str_FAN_ANOMALY \o <<" ">> \o Str_DETECTION \o <<"!">>
Texts == {Str_AB, Str_A_hash_B, <<>>, Str_mixed, Str_FAN_STATUS, Str_wide}
TextOrigins == {<<0, 0>>, <<10, 5>>, <<100, 60>>, <<-8, 30>>}

\* The framebuffer is as a call that redraws it whole has left it.
Fresh == call.op \in {"none", "clear", "fill"}

callerVars == <<now, sharedVars, captureVars, inferVars, i2c_ret, ghostVars>>

CallClear ==
    /\ call.op = "none"
    /\ oled_buffer' = oled_clear_buffer
    /\ call' = [op |-> "clear", n |-> 0]
    /\ UNCHANGED <<i2c_log, callerVars>>

CallFill ==
    /\ call.op = "none"
    /\ oled_buffer' = oled_fill_buffer
    /\ call' = [op |-> "fill", n |-> 0]
    /\ UNCHANGED <<i2c_log, callerVars>>

\* oled_set_pixel(x, y, on), up to MaxDraws times in a row.
CallSetPixel(x, y, on) ==
    /\ Fresh \/ (call.op = "pixel" /\ call.n < MaxDraws)
    /\ oled_buffer' = oled_set_pixel(oled_buffer, x, y, on)
    /\ call' = [op |-> "pixel", n |-> IF Fresh THEN 1 ELSE call.n + 1,
                x |-> x, y |-> y, on |-> on]
    /\ UNCHANGED <<i2c_log, callerVars>>

\* oled_draw_char(x, y, c, on) on a fresh framebuffer.
CallDrawChar(x, y, c, on) ==
    /\ Fresh
    /\ oled_buffer' = oled_draw_char(oled_buffer, x, y, c, on)
    /\ call' = [op |-> "char", n |-> 1, x |-> x, y |-> y, c |-> c, on |-> on,
                base |-> call.op]
    /\ UNCHANGED <<i2c_log, callerVars>>

\* oled_draw_char(x, y, c, false) right after oled_draw_char(x, y, c, true).
CallEraseChar ==
    /\ call.op = "char" /\ call.n = 1 /\ call.on
    /\ oled_buffer' = oled_draw_char(oled_buffer, call.x, call.y, call.c, FALSE)
    /\ call' = [call EXCEPT !.n = 2, !.on = FALSE]
    /\ UNCHANGED <<i2c_log, callerVars>>

\* oled_draw_string(x, y, str, on) on a fresh framebuffer.
CallDrawString(x, y, str, on) ==
    /\ Fresh
    /\ oled_buffer' = oled_draw_string(oled_buffer, x, y, str, on)
    /\ call' = [op |-> "string", n |-> 1, x |-> x, y |-> y, str |-> str, on |-> on,
                base |-> call.op]
    /\ UNCHANGED <<i2c_log, callerVars>>

\* oled_update() after a drawing call, every transmission succeeding; the
\* driver ends with it.
CallUpdate ==
    /\ call.op \in {"clear", "fill", "pixel", "char", "string"}
    /\ call.n <= 1
    /\ i2c_log' = oled_update(oled_buffer)
    /\ call' = [op |-> "update", n |-> 0]
    /\ UNCHANGED <<oled_buffer, callerVars>>

renderer ==
    \/ CallClear
    \/ CallFill
    \/ \E x \in PixelXs, y \in PixelYs, on \in BOOLEAN : CallSetPixel(x, y, on)
    \/ \E o \in CharOrigins, c \in SupportedChars \cup UnsupportedChars, on \in BOOLEAN :
           CallDrawChar(o[1], o[2], c, on)
    \/ CallEraseChar
    \/ \E o \in TextOrigins, str \in Texts, on \in BOOLEAN :
           CallDrawString(o[1], o[2], str, on)
    \/ CallUpdate

(***************************************************************************)
(* The system.  Init is the state when app_main has created the two tasks. *)
(***************************************************************************)
Init ==
    /\ now = 0
    /\ inference_buffer = [k \in 0..(N - 1) |-> 0]
    /\ audio_ready = FALSE
    /\ perf_metrics = [audio_capture_us |-> 0, inference_us |-> 0,
                       display_update_us |-> 0, total_cycle_us |-> 0,
                       fps |-> <<0, 1>>, inference_count |-> 0]
    /\ audio_capture_start_time = 0
    /\ pcC = "top"
    /\ ret = "none"
    /\ buffer_index = 0
    /\ samples_read = 0
    /\ i = 0
    /\ pcI = "start"
    /\ cycle_start_time = 0
    /\ last_report_time = 0
    /\ inference_start = 0
    /\ rd = 0
    /\ res = EI_IMPULSE_OK
    /\ result = <<>>
    /\ normal_score = 0
    /\ anomaly_score = 0
    /\ decision = "NONE"
    /\ display_start = 0
    /\ oled_buffer = StartupFrame
    /\ i2c_log = oled_update(StartupFrame)
    /\ i2c_ret = {}
    /\ call = [op |-> "none"]
    /\ marks_since_claim = 0
    /\ stores_since_mark = 0
    /\ frames_flushed = 0
    /\ summary_log = <<>>
    /\ start_stamped = FALSE

audio_capture_task(Chunks, Raws) ==
    \/ CaptureTop
    \/ \E n \in Chunks : CaptureReadOk(n)
    \/ CaptureReadFail
    \/ \E raw \in Raws : CaptureStore(raw)
    \/ CaptureMark
    \/ CaptureLoopExit
    \/ CaptureDelay

inference_task(Results, Faults) ==
    \/ InferStart
    \/ InferPoll
    \/ InferIdleDelay
    \/ InferClaim
    \/ SignalGetData
    \/ \E r \in Results : InferClassifyEnd(r)
    \/ InferRender
    \/ \E failed \in Faults : InferFlush(failed)
    \/ InferMetrics
    \/ InferReport
    \/ InferPace

(***************************************************************************)
(* Specifications.  No step of either task depends on the clock, but for   *)
(* the timestamps it stores and the summary branch of line 433, which      *)
(* changes last_report_time alone.  Each specification runs the two tasks  *)
(* in every interleaving and draws one kind of input in full:              *)
(*   Spec          the handoff: chunks of every size, at one instant;      *)
(*   SpecCapture   the samples: raw values of every kind, capture alone;   *)
(*   SpecClassify  the classifications: labels and scores of every kind;   *)
(*   SpecTimed     the clock: time passes between any two steps;           *)
(*   SpecReport    the clock in half periods, over several report periods, *)
(*                 read at lines 311 and 432.                              *)
(*   SpecFlush     the transport: transmissions of a flush that fail.      *)
(*   SpecLive      Spec with both tasks scheduled fairly.                  *)
(* SpecRender runs neither task: it calls the drawing functions.           *)
(***************************************************************************)
Next == audio_capture_task(ChunkSizes, QuietSamples) \/ inference_task(ClassifierResults, NoFaults)

Spec == Init /\ [][Next]_vars

NextCapture == audio_capture_task(ChunkSizes, RawSamples)

SpecCapture == Init /\ [][NextCapture]_vars

NextClassify == audio_capture_task(FullChunk, QuietSamples) \/ inference_task(LabelledResults, NoFaults)

SpecClassify == Init /\ [][NextClassify]_vars

NextTimed ==
    Tick \/ audio_capture_task(WindowChunk, QuietSamples) \/ inference_task(ClassifierResults, NoFaults)

SpecTimed == Init /\ [][NextTimed]_vars

NextReport ==
    \/ TickHalf
    \/ audio_capture_task(WindowChunk, QuietSamples)
    \/ inference_task(ReportResults, NoFaults)

SpecReport == Init /\ [][NextReport]_vars

NextFlush ==
    \/ audio_capture_task(WindowChunk, QuietSamples)
    \/ inference_task(ClassifierResults, TransmitFaults)

SpecFlush == Init /\ [][NextFlush]_vars

\* Lines 497-498 pin the two tasks to the two cores, so each task that can
\* take a step takes one; a task is one sequential loop, so weak fairness of
\* the task as a whole says that its calls (i2s_channel_read, run_classifier,
\* oled_update, vTaskDelay) return.
Fairness ==
    /\ WF_vars(audio_capture_task(ChunkSizes, QuietSamples))
    /\ WF_vars(inference_task(ClassifierResults, NoFaults))

SpecLive == Init /\ [][Next]_vars /\ Fairness

NextRender == renderer

SpecRender == Init /\ [][NextRender]_vars

(***************************************************************************)
(* Properties of the handoff.                                              *)
(* A step is told by what it changes: a store advances buffer_index, a     *)
(* mark leaves "full", a read through signal.get_data advances rd, a claim *)
(* leaves "claim".                                                         *)
(***************************************************************************)
StoreStep == buffer_index' = buffer_index + 1
MarkStep == pcC = "full" /\ pcC' # "full"
ReadStep == rd' = rd + 1
ClaimStep == pcI = "claim" /\ pcI' # "claim"

\* The window is handed off from the moment it is marked ready until the
\* classifier that claimed it has returned.
HandedOff == audio_ready \/ pcI = "classify"

\* C1: the window is never read through signal.get_data while the capture task
\* is part way through writing it, and the capture task never stores into the
\* window between marking it ready and the return of the classifier that
\* consumed it.
C1_WindowExclusive ==
    [][ /\ StoreStep => ~HandedOff
        /\ ReadStep => stores_since_mark = 0 ]_vars

\* C2: the capture task never sets audio_ready while it is still true from an
\* earlier window that no inference cycle has claimed.
C2_NoWindowDropped == [][MarkStep => ~audio_ready]_vars

\* C3: between two successive claims of the flag, and before the first, the
\* capture task has marked at least one new window ready.
C3_NoWindowConsumedTwice == [][ClaimStep => marks_since_claim >= 1]_vars

\* A second inference cycle has claimed a window.
C3_Witness ==
    /\ pcI = "classify"
    /\ perf_metrics.inference_count >= 1
    /\ marks_since_claim = 0

\* C4: audio_ready goes from false to true only in the marking step of the
\* capture task, from true to false only in the claiming step of the inference
\* task, and in no other step.
C4_FlagWriters ==
    [][ /\ (~audio_ready /\ audio_ready') =>
               (MarkStep /\ inferVars' = inferVars)
        /\ (audio_ready /\ ~audio_ready') =>
               (ClaimStep /\ captureVars' = captureVars) ]_vars

\* The flag has been cleared by a claim and set again by the capture task
\* while the classifier runs.
C4_Witness == pcI = "classify" /\ audio_ready /\ marks_since_claim = 1

\* C5: the window is marked ready exactly when N samples have been stored
\* since the last mark: the mark is the capture task's next step after the
\* N-th store, it never comes with fewer stores, and it starts the count anew.
C5_MarkEveryN ==
    /\ [](stores_since_mark <= N)
    /\ [](pcC = "full" <=> stores_since_mark = N)
    /\ [][MarkStep => (stores_since_mark = N /\ stores_since_mark' = 0)]_vars
    /\ [][stores_since_mark' < stores_since_mark => MarkStep]_vars

\* A window has been marked ready a second time, the next one is part filled.
C5_Witness ==
    /\ marks_since_claim = 2
    /\ stores_since_mark = 1
    /\ pcC = "loop"

(***************************************************************************)
(* Properties of the sample conversion.                                    *)
(***************************************************************************)
\* C6: every sample stored in the window equals the raw 32-bit sample shifted
\* right by 14, whatever the raw sample: the narrowing to 16 bits does not
\* change the shifted value.
C6_StoredIsShifted ==
    [][\A raw \in RawSamples :
           CaptureStore(raw) =>
               inference_buffer'[buffer_index] = ShiftRight(raw, SampleShift)]_vars

(***************************************************************************)
(* Properties of the classification.                                       *)
(***************************************************************************)
\* Pixel (x, y) of the frame buf is lit.
PixelOn(buf, x, y) == Bit(buf[x + (y \div 8) * OLED_WIDTH], y % 8) = 1

\* The positions of a cycle after its frame is drawn.
Rendered == pcI \in {"flush", "metrics", "report", "pace"}

\* C7: the decision of a cycle is the anomaly exactly when the abnormal score
\* is greater than the normal score, and normal when they are equal: the word
\* logged, and the warning box of the frame (its corner (10, 22)), which only
\* the anomaly screen draws.
C7_DecisionRule ==
    Rendered =>
        /\ decision \in {"ANOMALY", "NORMAL"}
        /\ decision = "ANOMALY" <=> anomaly_score > normal_score
        /\ PixelOn(oled_buffer, 10, 22) <=> anomaly_score > normal_score

\* A cycle with equal scores has drawn the normal screen.
C7_Witness ==
    /\ pcI = "flush"
    /\ normal_score = 50
    /\ anomaly_score = 50
    /\ decision = "NORMAL"
    /\ ~PixelOn(oled_buffer, 10, 22)

\* The value of the last entry of cls whose label is in Labels, 0 without one.
LastValue(cls, Labels) ==
    LET K == {k \in 1..Len(cls) : cls[k].label \in Labels}
    IN  IF K = {} THEN 0 ELSE cls[CHOOSE k \in K : \A j \in K : j <= k].value

\* The same with the labels compared in lower case.
LastValueAnyCase(cls, name) ==
    LET K == {k \in 1..Len(cls) : LowerStr(cls[k].label) = name}
    IN  IF K = {} THEN 0 ELSE cls[CHOOSE k \in K : \A j \in K : j <= k].value

FailureStep == pcI = "classify" /\ pcI' # "classify" /\ res' = EI_IMPULSE_ERROR

\* The metrics m but for inference_us.
ButInferenceUs(m) == [m EXCEPT !.inference_us = 0]

\* C9 as stated: a cycle whose classification fails draws and flushes
\* nothing, leaves every field of perf_metrics as it was, inference_us and
\* inference_count included, and returns to the polling of the flag.
C9_FailureChangesNothing ==
    [][FailureStep =>
           /\ perf_metrics' = perf_metrics
           /\ UNCHANGED <<oled_buffer, i2c_log, frames_flushed>>
           /\ pcI' = "poll"]_vars

\* C9 as amended: a cycle whose classification fails draws and flushes
\* nothing, from its claim on; it leaves every field of perf_metrics but
\* inference_us as it was, inference_count included, and stores the duration
\* of the failed call in inference_us; it returns to the polling of the flag
\* without setting the flag again.
C9_FailureKeepsAllButInferenceUs ==
    /\ [][FailureStep =>
              /\ ButInferenceUs(perf_metrics') = ButInferenceUs(perf_metrics)
              /\ perf_metrics'.inference_us = now - inference_start
              /\ UNCHANGED <<oled_buffer, i2c_log, frames_flushed>>
              /\ pcI' = "poll"
              /\ audio_ready' = audio_ready]_vars
    /\ [][(pcI \in {"poll", "idle", "claim", "classify"}) =>
              (UNCHANGED <<oled_buffer, i2c_log, frames_flushed>>)]_vars
    /\ [](Rendered \/ pcI = "render" => res = EI_IMPULSE_OK)

\* A classification that took one tick has failed before any cycle completed:
\* the startup screen is still shown, the count is 0, the duration is stored.
C9_Witness ==
    /\ pcI = "poll"
    /\ res = EI_IMPULSE_ERROR
    /\ perf_metrics.inference_us = TickUs
    /\ perf_metrics.inference_count = 0
    /\ frames_flushed = 0
    /\ oled_buffer = StartupFrame

\* C10: inference_count is the number of cycles completed, each of which has
\* flushed one frame (the cycle at "metrics" has flushed its frame and not yet
\* counted itself); the count never decreases, and the step of the summary
\* leaves it as it is.
C10_CountIsCompletedCycles ==
    /\ [](perf_metrics.inference_count =
              frames_flushed - (IF pcI = "metrics" THEN 1 ELSE 0))
    /\ [][perf_metrics'.inference_count >= perf_metrics.inference_count]_vars
    /\ [][(pcI = "report" /\ pcI' # "report") =>
              perf_metrics'.inference_count = perf_metrics.inference_count]_vars

\* One cycle has completed, started at time 0 and ended one tick later, so that
\* it emitted the summary; then a cycle has failed: the count is still 1.
C10_Witness ==
    /\ pcI = "poll"
    /\ res = EI_IMPULSE_ERROR
    /\ perf_metrics.inference_count = 1
    /\ frames_flushed = 1
    /\ perf_metrics.total_cycle_us = TickUs
    /\ last_report_time = TickUs

(***************************************************************************)
(* Properties of the periodic summary.                                     *)
(***************************************************************************)
\* C11: a summary is never emitted less than the report period (10 seconds)
\* after the summary before it, or after the start of the inference task for
\* the first summary: in the log of the start and of the summaries, each time
\* is a period or more after the one before it.
C11_SummaryPeriod ==
    \A k \in 1..(Len(summary_log) - 1) :
        summary_log[k + 1] - summary_log[k] >= ReportPeriodUs

\* Two summaries have been emitted: the first a period after the start of the
\* task, the second a period after the first.
C11_Witness ==
    /\ Len(summary_log) = 3
    /\ summary_log[1] = 0
    /\ summary_log[2] = ReportPeriodUs
    /\ summary_log[3] = 2 * ReportPeriodUs

(***************************************************************************)
(* Properties of the renderer.  The driver's variable call tells the call  *)
(* a step has made and its arguments.                                      *)
(***************************************************************************)
Called(op) == call' # call /\ call'.op = op

\* The byte b with bit k made 1 if on, 0 otherwise.
WithBit(b, k, on) ==
    b - ((b \div (2 ^ k)) % 2) * (2 ^ k) + (IF on THEN 2 ^ k ELSE 0)

\* C12: oled_set_pixel(x, y, on) leaves the whole framebuffer as it is for
\* (x, y) outside [0,128) x [0,64); inside, byte x + (y/8)*128 gets its bit y%8
\* made 1 if on and 0 otherwise, its other bits and every other byte are left
\* as they are.
C12_SetPixel ==
    [][Called("pixel") =>
           LET x == call'.x
               y == call'.y
           IN  IF x < 0 \/ x >= 128 \/ y < 0 \/ y >= 64
                  THEN oled_buffer' = oled_buffer
                  ELSE \A k \in 0..1023 :
                           oled_buffer'[k] =
                               IF k = x + (y \div 8) * 128
                                  THEN WithBit(oled_buffer[k], y % 8, call'.on)
                                  ELSE oled_buffer[k]]_vars

\* On the filled framebuffer the pixel (127, 63) has been cleared: the last
\* byte has lost its bit 7.
C12_Witness ==
    /\ call.op = "pixel"
    /\ call.n = 1
    /\ call.x = 127 /\ call.y = 63 /\ ~call.on
    /\ oled_buffer[1023] = 127
    /\ oled_buffer[1022] = 255

\* Bit j of column i of the glyph of c is 1, for (i, j) in the glyph's 5 x 7.
GlyphBit(c, ci, j) ==
    /\ ci \in 0..4
    /\ j \in 0..6
    /\ Bit(font5x7[GlyphIndex(c) + 1][ci + 1], j) = 1

\* C13: on the cleared framebuffer oled_draw_char(x, y, c, true) of a
\* supported character lights exactly the pixels (x + i, y + j) of the screen
\* for which bit j of column i of the glyph is 1, and oled_draw_char(x, y, c,
\* false) right after it leaves the framebuffer all zeros.
C13_DrawCharRoundTrip ==
    /\ [][(Called("char") /\ call'.n = 1 /\ call'.base = "clear" /\ call'.on
              /\ call'.c \in SupportedChars) =>
              \A px \in 0..127, py \in 0..63 :
                  PixelOn(oled_buffer', px, py) <=>
                      GlyphBit(call'.c, px - call'.x, py - call'.y)]_vars
    /\ [][(Called("char") /\ call'.n = 2 /\ call'.base = "clear"
              /\ call'.c \in SupportedChars) =>
              \A k \in 0..1023 : oled_buffer'[k] = 0]_vars

\* 'W' has been drawn across the right edge of the cleared framebuffer and
\* erased again.
C13_Witness ==
    /\ call.op = "char"
    /\ call.n = 2
    /\ call.base = "clear"
    /\ call.c = "W"
    /\ call.x = 125 /\ call.y = 3
    /\ oled_buffer = oled_clear_buffer

\* oled_draw_char called for character k of str, k = from, from + 1, ..., with
\* the glyph origin at (x + 6 * (k - 1), y).
RECURSIVE DrawCharsFrom(_, _, _, _, _, _)
DrawCharsFrom(buf, x, y, str, from, on) ==
    IF from > Len(str) THEN buf
    ELSE DrawCharsFrom(oled_draw_char(buf, x + 6 * (from - 1), y, str[from], on),
                       x, y, str, from + 1, on)

\* C14: oled_draw_string(x, y, text, on) draws character k of the text
\* (0-based) with its glyph origin at (x + 6k, y), for every text; a character
\* without a glyph changes no pixel and still takes its 6 columns.
C14_DrawString ==
    /\ [][Called("string") =>
              oled_buffer' =
                  DrawCharsFrom(oled_buffer, call'.x, call'.y, call'.str, 1, call'.on)]_vars
    /\ [][(Called("char") /\ call'.n = 1 /\ call'.c \in UnsupportedChars) =>
              oled_buffer' = oled_buffer]_vars

\* "A#B" has been drawn at (10, 5) on the cleared framebuffer: 'A' is at
\* column 10, nothing at column 16, 'B' at column 22.
C14_Witness ==
    /\ call.op = "string"
    /\ call.base = "clear"
    /\ call.str = Str_A_hash_B
    /\ call.x = 10 /\ call.y = 5 /\ call.on
    /\ oled_buffer =
           oled_draw_char(oled_draw_char(oled_clear_buffer, 10, 5, "A", TRUE),
                          22, 5, "B", TRUE)
    /\ oled_buffer # oled_clear_buffer

\* C15: oled_update sends the 8 pages in ascending order; for page p the
\* commands 0xB0 + p, 0x00, 0x10 come before the page's data, the data is the
\* control byte 0x40 and the framebuffer bytes 128p .. 128p + 127 in order,
\* and the framebuffer is left as it is.
C15_UpdateOrder ==
    [][Called("update") =>
           /\ oled_buffer' = oled_buffer
           /\ Len(i2c_log') = 32
           /\ \A p \in 0..7 :
                  /\ i2c_log'[4 * p + 1] = <<0, 176 + p>>
                  /\ i2c_log'[4 * p + 2] = <<0, 0>>
                  /\ i2c_log'[4 * p + 3] = <<0, 16>>
                  /\ Len(i2c_log'[4 * p + 4]) = 129
                  /\ i2c_log'[4 * p + 4][1] = 64
                  /\ \A k \in 0..127 :
                         i2c_log'[4 * p + 4][k + 2] = oled_buffer[128 * p + k]]_vars

\* The framebuffer with 'W' drawn across pages 3 and 4 has been flushed.
C15_Witness ==
    /\ call.op = "update"
    /\ oled_buffer = oled_draw_char(oled_clear_buffer, 62, 29, "W", TRUE)
    /\ i2c_log[16][64] = oled_buffer[3 * 128 + 62]
    /\ i2c_log[16][64] # 0
    /\ i2c_log[20][64] # 0

(***************************************************************************)
(* Properties of the flush inside a cycle.                                 *)
(***************************************************************************)
FlushStep == pcI = "flush" /\ pcI' # "flush"

\* The caller goes on as it does after a flush without a failed transmission:
\* to the metrics of line 402, with nothing else in its hands changed.
ContinuesAsAfterSuccess ==
    /\ pcI' = "metrics"
    /\ UNCHANGED <<cycle_start_time, last_report_time, inference_start, rd, res,
                   result, normal_score, anomaly_score, decision, display_start>>
    /\ UNCHANGED <<perf_metrics, oled_buffer>>

\* C16: when a transmission of a flush fails (a page-address command or a
\* page's data), the caller of oled_update observes the failure: it does not
\* go on in the state it goes on in after a flush that succeeded.
C16_FlushFailureObserved ==
    [][(FlushStep /\ i2c_ret' # {}) => ~ContinuesAsAfterSuccess]_vars

(***************************************************************************)
(* Properties of the capture loop.                                         *)
(***************************************************************************)
CaptureStep == pcC' # pcC

\* C17: the iteration of a failed read appends no sample and leaves the
\* window, the fill index and the readiness flag as they are: the failing read
\* goes to the delay of line 293 with all of them unchanged, and the delay goes
\* to the top of the loop, from where the read is made again.
C17_FailedReadHarmless ==
    /\ [][(CaptureStep /\ (ret' = "ESP_FAIL" \/ ret = "ESP_FAIL")) =>
              /\ UNCHANGED <<inference_buffer, buffer_index, audio_ready,
                             stores_since_mark>>
              /\ \/ pcC = "read" /\ pcC' = "delay"
                 \/ pcC = "delay" /\ pcC' = "top"]_vars
    /\ [][(pcC = "top" /\ CaptureStep) =>
              /\ pcC' = "read"
              /\ UNCHANGED <<inference_buffer, buffer_index, audio_ready>>]_vars

\* A read has failed with the window partly filled and the flag still set
\* from the window before.
C17_Witness ==
    /\ pcC = "delay"
    /\ ret = "ESP_FAIL"
    /\ buffer_index = 1
    /\ stores_since_mark = 1
    /\ audio_ready


\* C18: whenever the capture task appends the first sample of a window (the
\* fill index is 0, at the top of the loop or right after a window completed
\* in the middle of a chunk), it has taken the start timestamp since the
\* window before was marked, so the duration stored at the mark is measured
\* from the start of the window being marked.
C18_StampBeforeFirstSample ==
    [][(StoreStep /\ buffer_index = 0) => start_stamped]_vars


\* C20: 0 <= buffer_index < N at every write into the window and at every
\* boundary of the two loops, whatever the size of the chunks; every sample of
\* a chunk read is appended: the for loop consumes a sample only by storing it
\* and ends only with the chunk used up, the samples past the end of a window
\* going to the window after it.
C20_FillIndexInBounds ==
    /\ [](pcC \in {"top", "read", "loop", "delay"} => buffer_index \in 0..(N - 1))
    /\ [][StoreStep => (buffer_index \in 0..(N - 1) /\ i' = i + 1)]_vars
    /\ [][(pcC = "loop" /\ i' # i) =>
              \/ StoreStep /\ i' = i + 1
              \/ pcC' = "delay" /\ i = samples_read]_vars

\* The last sample of a chunk longer than the window has been stored at the
\* start of the next window.
C20_Witness ==
    /\ pcC = "loop"
    /\ samples_read = N + 1
    /\ i = N + 1
    /\ buffer_index = 1
    /\ stores_since_mark = 1
    /\ audio_ready


(***************************************************************************)
(* Properties of the frame of a cycle.                                     *)
(***************************************************************************)
RenderStep == pcI = "render" /\ pcI' # "render"

\* Pixel (px, py) belongs to the text str drawn with its origin at (x0, y0).
TextBit(str, x0, y0, px, py) ==
    /\ py \in y0..(y0 + 6)
    /\ px >= x0
    /\ (px - x0) \div 6 + 1 <= Len(str)
    /\ GlyphIndex(str[(px - x0) \div 6 + 1]) >= 0
    /\ GlyphBit(str[(px - x0) \div 6 + 1], (px - x0) % 6, py - y0)

\* Pixel (px, py) belongs to the border of the rectangle from (10, 22) to
\* (117, 38).
BoxBit(px, py) ==
    \/ px \in 10..117 /\ py \in {22, 38}
    \/ px \in {10, 117} /\ py \in 22..37

\* Pixel (px, py) is lit in the result screen of a cycle with the scores ns and
\* as (in hundredths) and the inference duration us.
ResultScreenBit(px, py, ns, as, us) ==
    \/ TextBit(Str_FAN_STATUS, 10, 5, px, py)
    \/ py = 16
    \/ as > ns /\ (TextBit(Str_ANOMALY, 15, 25, px, py) \/ BoxBit(px, py))
    \/ ~(as > ns) /\ TextBit(Str_NORMAL, 20, 25, px, py)
    \/ TextBit(ScoreText(ns, as), 20, 45, px, py)
    \/ TextBit(TimingText(us), 5, 55, px, py)

\* The framebuffer whose lit pixels are those of the result screen: bit b of
\* byte k is pixel (k % 128, 8 * (k / 128) + b).
ResultScreen(ns, as, us) ==
    [k \in 0..1023 |->
        LET B(b) == IF ResultScreenBit(k % 128, 8 * (k \div 128) + b, ns, as, us)
                       THEN 2 ^ b ELSE 0
        IN  B(0) + B(1) + B(2) + B(3) + B(4) + B(5) + B(6) + B(7)]

\* ResultScreen, tabulated over the scores and durations of the model.
ResultScreenTable ==
    [ns \in ScoreValues, as \in ScoreValues, us \in ClockValues |->
        ResultScreen(ns, as, us)]

\* C19: the frame of a successful cycle is drawn on a cleared framebuffer and
\* flushed once after all the drawing, so it holds the result screen of that
\* cycle and nothing else: the "ANOMALY!" text and the rectangle border exactly
\* when the cycle's abnormal score is above its normal score, whatever the
\* cycles before have drawn.
C19_FrameFromThisCycle ==
    /\ [][RenderStep =>
              oled_buffer' = ResultScreenTable[normal_score, anomaly_score,
                                               perf_metrics.inference_us]]_vars
    /\ [][(oled_buffer' # oled_buffer) => RenderStep]_vars
    /\ [][(pcI = "flush" /\ pcI' # "flush") =>
              /\ pcI' = "metrics"
              /\ frames_flushed' = frames_flushed + 1
              /\ \A p \in 0..7, k \in 0..127 :
                     i2c_log'[4 * p + 4][k + 2] = oled_buffer[128 * p + k]]_vars
    /\ [][(frames_flushed' # frames_flushed) => pcI = "flush"]_vars

\* A normal cycle has drawn its frame, without the border, while the display
\* still shows the anomaly frame flushed by the cycle before.
C19_Witness ==
    /\ pcI = "flush"
    /\ frames_flushed = 1
    /\ decision = "NORMAL"
    /\ ~PixelOn(oled_buffer, 10, 22)
    /\ ~PixelOn(oled_buffer, 117, 38)
    /\ Bit(i2c_log[12][12], 6) = 1


(***************************************************************************)
(* Progress of the handoff.                                                *)
(***************************************************************************)
\* The inference task has just cleared the flag and entered run_classifier.
Claimed == pcI = "classify" /\ ~audio_ready

\* The model's horizon: the cycles it counts are used up.
CyclesUsedUp == perf_metrics.inference_count >= MaxCycles

\* C21: with both tasks scheduled fairly and every call returning, whenever
\* audio_ready is true the inference task eventually clears it and runs a
\* classification, after successful cycles and after failed classifications
\* alike (within the cycles the model counts).
C21_ReadyWindowClaimed == audio_ready ~> (Claimed \/ CyclesUsedUp)

\* A window has been claimed right after a classification that failed.
C21_Witness ==
    /\ Claimed
    /\ rd = 0
    /\ marks_since_claim = 0
    /\ res = EI_IMPULSE_ERROR
    /\ perf_metrics.inference_count = 1
    /\ frames_flushed = 1

=============================================================================
